---- MODULE Spec2Model ----
(***************************************************************************)
(* State-machine model of the hierarchical image cache of the image        *)
(* repository (src/src/Caches.py), of the artifact handle                  *)
(* (src/src/ImageType.py) and of derivation names (src/src/ImageNames.py). *)
(*                                                                         *)
(* A Python exception is modelled as the result of the call that raised    *)
(* it: every operation yields a "world" record whose field res is either   *)
(* the returned value ("True", "False", "None") or the name of the         *)
(* exception that left the call.                                           *)
(***************************************************************************)
EXTENDS Integers, Sequences, FiniteSets, TLC

\* ------------------------------------------------------------------ bounds
MaxTime == 2          \* wall clock (time.time) runs over 1..MaxTime
MaxClock == 3         \* cpu clock (time.clock) runs over 1..MaxClock
MemMaxSize == 20      \* configured max_size of the memory tier
MemMaxElements == 1   \* configured max_elements of the memory tier
FileMaxSmall == 10    \* the bounded choice of the local-file tier's max_size
InitLifetime == 1     \* 'lifetime' metadata found on a remote-cache object
UrlLifetime == 2      \* configured url_lifetime
UrlSlack == 1         \* configured url_lifetime_slack

\* ------------------------------------------------------------- the inputs
\* Canonical names held by the caches: an original, a thumbnail and a
\* plain derivation, all of the same base image.
Names == {"o", "t", "d"}
IsOriginal(n) == n = "o"
IsThumbnail(n) == n = "t"

\* len(image) and len(bytes) of the artifact a client supplies under a name.
ImgLen == [o |-> 2, t |-> 1, d |-> 3]
BlobLen == [o |-> 3, t |-> 1, d |-> 3]

Tiers == {"memory", "file", "pcache", "pstore"}

VARIABLES
    cfg,         \* the configuration the hierarchy was built with
    contents,    \* tier -> (name -> CacheEntry): ImageCache._contents
    used,        \* tier -> ImageCache._size
    handle,      \* name -> state of the client-supplied ImageHandle
    now,         \* time.time()
    clock,       \* time.clock()
    baseImages,  \* CacheMaster._base_images: whether built, and the names indexed
    mustAdded,   \* names for which Master.add(.., must_retain=True) returned
    last,        \* the last call and how it ended
    nm,          \* an ImageName under construction, and the file name it came from
    der          \* the derivation cache of get_as_defined, and its last call

vars == <<cfg, contents, used, handle, now, clock, baseImages, mustAdded, last, nm, der>>

\* ------------------------------------------------------------ CacheEntry
\* h = "u": the entry refers to the client-supplied handle of its name
\* h = "r": the entry refers to a handle built from the remote listing
NewEntry(hk, size, retain, permanent) ==
    [h |-> hk, size |-> size, at |-> clock, prefer |-> retain,
     must |-> permanent, ru |-> 0]

\* CacheEntry.must_retain at wall-clock time t (retain_until is never None here)
MustRetainAt(e, t) == e.must \/ e.ru < t
MustRetain(e) == MustRetainAt(e, now)

\* CacheEntry.set_retain_until
SetRetainUntil(e, t) == [e EXCEPT !.ru = IF t < now THEN 0 ELSE t]

\* ----------------------------------------------------------- ImageHandle
InitHandle(n) == [size |-> ImgLen[n], ppath |-> FALSE, store |-> "none", bytes |-> FALSE, img |-> TRUE]

\* ImageHandle._get_image: (re)build the decoded image when it is not held
GetImage(h, n) == IF h.img THEN h ELSE [h EXCEPT !.img = TRUE, !.size = ImgLen[n]]

\* ImageHandle.bytes
Bytes(h, n) ==
    LET g == IF h.bytes THEN h ELSE [GetImage(h, n) EXCEPT !.bytes = TRUE]
    IN  [g EXCEPT !.size = BlobLen[n]]

\* ImageHandle.as_filelike
AsFilelike(h, n) == [Bytes(h, n) EXCEPT !.bytes = FALSE]

\* ImageHandle.as_file
AsFile(h, n) == [GetImage(h, n) EXCEPT !.bytes = FALSE]

\* ImageHandle.as_persistent (the store is always supplied by the tier)
AsPersistent(h, n, store) ==
    LET g == IF h.ppath THEN h ELSE [AsFilelike(h, n) EXCEPT !.ppath = TRUE, !.store = store]
    IN  [g EXCEPT !.bytes = FALSE]

\* ImageHandle.weaken_liveness: the only strong reference is dropped
WeakenLiveness(h) == [h EXCEPT !.img = FALSE]

\* ImageHandle.size / has_persistence of the handle an entry refers to
HandleSize(W, n, hk) == IF hk \in {"r", "f"} THEN 0 ELSE W.h[n].size
HasPersistence(W, n, hk) == IF hk = "r" THEN TRUE ELSE IF hk = "f" THEN FALSE ELSE W.h[n].ppath

\* ------------------------------------------------------------ tier config
MaxSizeOf(t) ==
    CASE t = "memory" -> MemMaxSize
      [] t = "file" -> cfg.fileMax
      [] t = "pcache" -> cfg.pcacheMax
      [] OTHER -> 0
MaxElementsOf(t) == IF t = "memory" THEN MemMaxElements ELSE 0
EagerOf(t) ==
    CASE t = "memory" -> cfg.memEager
      [] t = "file" -> cfg.fileEager
      [] OTHER -> FALSE
Hysterysis10 == 3     \* ImageCache._hysterysis = 0.3, in tenths

IsExc(res) == res \notin {"True", "False", "None"}

World == [c |-> contents, u |-> used, h |-> handle, b |-> baseImages, res |-> "None"]

Has(W, t, n) == n \in DOMAIN W.c[t]

\* dict insertion and removal
Put(f, n, e) == [x \in DOMAIN f \cup {n} |-> IF x = n THEN e ELSE f[x]]
Drop(f, n) == [x \in DOMAIN f \ {n} |-> f[x]]

\* ------------------------------------------------------- name policy
\* ImageCache._should_retain / _is_permanent on a name given as a string: the
\* name is parsed, and the parser records a thumbnail in _thumbnail, which
\* is_thumbnail() does not read.
ShouldRetainParsed(n) == FALSE
IsPermanent(n) == IsOriginal(n)

\* ----------------------------------------------------------- ImageCache
\* ImageCache.add, lines 321-328: the branch taken for an element above 10%
\* of max_size formats self._class__.__name__ for the log line.
OversizeOutcome == "AttributeError"

\* the except clauses closing ImageCache.add
Reraise(res) == IF res \in {"RepositoryFailure", "RepositoryError"} THEN res ELSE "RepositoryError"

\* _store_actual of the three cache tiers
StoreActual(W, t, n, hk) ==
    IF hk = "r" \/ t = "memory" THEN W
    ELSE IF t = "file" THEN [W EXCEPT !.h[n] = AsFile(@, n)]
    ELSE [W EXCEPT !.h[n] = AsPersistent(@, n, t)]

\* PersistentImageStore.add: the entry takes the size read before the upload,
\* _size the size read after it.
StoreAdd(W, n, hk, retain) ==
    IF Has(W, "pstore", n) THEN [W EXCEPT !.res = "True"]
    ELSE LET e == NewEntry(hk, HandleSize(W, n, hk), retain, TRUE)
             W1 == [W EXCEPT !.c["pstore"] = Put(@, n, e)]
             W2 == IF hk = "u" THEN [W1 EXCEPT !.h[n] = AsPersistent(@, n, "pstore")] ELSE W1
         IN  [W2 EXCEPT !.u["pstore"] = @ + HandleSize(W2, n, hk), !.res = "True"]

\* ImageCache.add, the try block up to _store_actual: the entry is indexed,
\* _size grows by the handle's size, the tier stores the artifact
Inserted(W, t, n, hk, retain, must) ==
    StoreActual([W EXCEPT !.c[t] = Put(@, n, NewEntry(hk, HandleSize(W, n, hk), retain, must)),
                          !.u[t] = @ + HandleSize(W, n, hk)], t, n, hk)

\* an add that does not look for the name first
AddAgain(W, t, n, hk, After) ==
    IF MaxSizeOf(t) # 0 /\ HandleSize(W, n, hk) * 10 > MaxSizeOf(t)
    THEN [W EXCEPT !.res = OversizeOutcome]
    ELSE IF IsExc(After.res) THEN [After EXCEPT !.res = Reraise(After.res)]
    ELSE [After EXCEPT !.res = "True"]

\* ImageCache.add (memory, local file, remote cache), given the world After
\* the try block has run (the insertion and, if eager, the write-back). The
\* clean that follows the try block is never reached: every path through the
\* block returns or raises.
AddOutcome(W, t, n, hk, After) ==
    IF Has(W, t, n) THEN [W EXCEPT !.res = "True"]
    ELSE IF MaxSizeOf(t) # 0 /\ HandleSize(W, n, hk) * 10 > MaxSizeOf(t)
    THEN [W EXCEPT !.res = OversizeOutcome]
    ELSE IF IsExc(After.res) THEN [After EXCEPT !.res = Reraise(After.res)]
    ELSE [After EXCEPT !.res = "True"]

\* the value the lower tier's add returns is not looked at
Ignore(R) == IF IsExc(R.res) THEN R ELSE [R EXCEPT !.res = "None"]

\* the remote cache: PersistentImageCache._write_back is `pass`
PcacheAdd(W, n, hk, retain, must) ==
    AddOutcome(W, "pcache", n, hk, Inserted(W, "pcache", n, hk, retain, must))

\* ImageCache._write_back of the local-file tier: retained entries go to the
\* remote store, the others to the remote cache
FileWriteBack(W, n) ==
    LET e == W.c["file"][n]
    IN  Ignore(IF MustRetain(e) THEN StoreAdd(W, n, e.h, e.prefer)
               ELSE PcacheAdd(W, n, e.h, e.prefer, MustRetain(e)))

FileAdd(W, n, hk, retain, must) ==
    LET I == Inserted(W, "file", n, hk, retain, must)
    IN  AddOutcome(W, "file", n, hk, IF EagerOf("file") THEN FileWriteBack(I, n) ELSE I)

\* ImageCache._write_back of the memory tier: both its lower levels are the
\* local-file tier
MemoryWriteBack(W, n) ==
    LET e == W.c["memory"][n]
    IN  Ignore(FileAdd(W, n, e.h, e.prefer, MustRetain(e)))

MemoryAdd(W, n, hk, retain, must) ==
    LET I == Inserted(W, "memory", n, hk, retain, must)
    IN  AddOutcome(W, "memory", n, hk, IF EagerOf("memory") THEN MemoryWriteBack(I, n) ELSE I)

CacheAdd(W, t, n, hk, retain, must) ==
    CASE t = "memory" -> MemoryAdd(W, n, hk, retain, must)
      [] t = "file" -> FileAdd(W, n, hk, retain, must)
      [] t = "pcache" -> PcacheAdd(W, n, hk, retain, must)

AddTo(W, t, n, hk, retain, must) ==
    IF t = "pstore" THEN StoreAdd(W, n, hk, retain)
    ELSE CacheAdd(W, t, n, hk, retain, must)

WriteBack(W, t, n) ==
    CASE t = "memory" -> MemoryWriteBack(W, n)
      [] t = "file" -> FileWriteBack(W, n)
      [] OTHER -> W

\* a hit that leaves the access time as it was
StaleTouch(W, t, n) == W

\* ImageCache.get
Touch(W, t, n) == [W EXCEPT !.c[t][n].at = clock]
TierGetW(W, t, n) == IF Has(W, t, n) THEN [Touch(W, t, n) EXCEPT !.res = "image"] ELSE [W EXCEPT !.res = "None"]

\* A write-back that returns instead of raising: what _async_write_back does
\* once the lookup of the entry's flag no longer fails.
AsyncWriteBackReturns(W, t, n) == [W EXCEPT !.res = "False"]

\* ImageCache._async_write_back: entry[1] on a CacheEntry, which has no __getitem__
AsyncWriteBack(W, t, n) == [W EXCEPT !.res = "AttributeError"]

\* PersistentImageCache.may_remove (_retain_until is never None: the
\* constructor default is 0)
MayRemove(W, n) == ~MustRetain(W.c["pcache"][n])

\* _remove_actual of the three cache tiers (the local-file one swallows the
\* AttributeError of os.delete; the remote-cache one asks may_remove first)
RemoveActual(W, t, n) ==
    IF t = "memory" /\ W.c[t][n].h = "u" THEN [W EXCEPT !.h[n] = WeakenLiveness(@)] ELSE W

\* ImageCache.delete
Delete(W, t, n) ==
    IF ~Has(W, t, n) THEN [W EXCEPT !.res = "False"]
    ELSE LET e == W.c[t][n]
             W0 == IF MustRetain(e) THEN AsyncWriteBack(W, t, n) ELSE W
         IN  IF IsExc(W0.res) THEN W0
             ELSE LET W1 == [W0 EXCEPT !.u[t] = @ - e.size]
                      W2 == RemoveActual(W1, t, n)
                  IN  [W2 EXCEPT !.c[t] = Drop(@, n), !.res = "True"]

\* PersistentImageStore.delete: _remove_actual indexes the CacheEntry (ref[0])
StoreDelete(W, n) ==
    IF Has(W, "pstore", n) THEN [W EXCEPT !.res = "AttributeError"] ELSE [W EXCEPT !.res = "False"]

DeleteFrom(W, t, n) == IF t = "pstore" THEN StoreDelete(W, n) ELSE Delete(W, t, n)

\* ------------------------------------------------------- ImageCache._clean
Min(a, b) == IF a < b THEN a ELSE b

\* int(limit * self._hysterysis)
Hyst(limit) == (limit * Hysterysis10) \div 10

\* the three lists _clean builds, as subsequences of the sorted contents
Unsafe(W, t, n) == MustRetain(W.c[t][n]) /\ ~HasPersistence(W, n, W.c[t][n].h)
KillList(W, t, ord) == SelectSeq(ord, LAMBDA n : ~Unsafe(W, t, n) /\ ~W.c[t][n].prefer)
RetainedList(W, t, ord) == SelectSeq(ord, LAMBDA n : ~Unsafe(W, t, n) /\ W.c[t][n].prefer)
PersistentWriteBack(W, t, ord) == SelectSeq(ord, LAMBDA n : Unsafe(W, t, n))

\* ImageCache._handle_clean_failure raises; the local-file override calls
\* element.size(), an integer, on the first entry it visits.
HandleCleanFailure(W, t) ==
    IF t # "file" THEN [W EXCEPT !.res = "RepositoryError"]
    ELSE IF DOMAIN W.c[t] # {} THEN [W EXCEPT !.res = "TypeError"]
    ELSE [W EXCEPT !.c[t] = << >>, !.u[t] = 0]

RECURSIVE Walk(_, _, _, _, _, _, _)
\* one of the three while loops of _clean; snap is the sorted snapshot, wb says
\* whether the loop queues a write-back before each delete
Walk(W, t, snap, lst, td, sd, wb) ==
    IF lst = << >> \/ ~(td > 0 /\ sd >= 0) THEN [w |-> W, td |-> td, sd |-> sd]
    ELSE LET n == Head(lst)
             W0 == IF wb THEN AsyncWriteBack(W, t, n) ELSE W
             D == IF IsExc(W0.res) THEN W0 ELSE Delete(W0, t, n)
         IN  IF IsExc(D.res) THEN [w |-> D, td |-> td, sd |-> sd]
             ELSE IF D.res = "True"
             THEN Walk([D EXCEPT !.res = "None"], t, snap, Tail(lst), td - 1, sd - snap[n].size, wb)
             ELSE Walk([D EXCEPT !.res = "None"], t, snap, Tail(lst), td, sd, wb)

\* a clean that evicts the least recently used entry
EvictOldest(W, ord) ==
    IF ord = << >> THEN W
    ELSE [W EXCEPT !.u["pstore"] = @ - W.c["pstore"][Head(ord)].size, !.c["pstore"] = Drop(@, Head(ord))]

\* PersistentImageStore._clean
StoreCleanW(W, ord) == W

\* ord: the names of the tier sorted by access time
Clean(W, t, ord) ==
    IF t = "pstore" THEN StoreCleanW(W, ord)
    ELSE LET snap == W.c[t]
             td0 == Min(Hyst(MaxElementsOf(t)), Cardinality(DOMAIN snap)) + 1
             sd0 == Min(Hyst(MaxSizeOf(t)), W.u[t])
             r1 == Walk(W, t, snap, KillList(W, t, ord), td0, sd0, FALSE)
             r2 == Walk(r1.w, t, snap, PersistentWriteBack(W, t, ord), r1.td, r1.sd, TRUE)
             r3 == Walk(r2.w, t, snap, RetainedList(W, t, ord), r2.td, r2.sd, FALSE)
             over(X) == X.u[t] > MaxSizeOf(t) \/ MaxElementsOf(t) < Cardinality(DOMAIN X.c[t])
         IN  IF IsExc(r1.w.res) \/ (r1.sd <= 0 /\ r1.td <= 0) THEN r1.w
             ELSE IF IsExc(r2.w.res) \/ (r2.sd <= 0 /\ r2.td <= 0) THEN r2.w
             ELSE IF IsExc(r3.w.res) THEN r3.w
             ELSE IF over(r3.w) THEN HandleCleanFailure(r3.w, t)
             ELSE r3.w

\* the orders sorted() may give: every order of the names that agrees with
\* the access times (dict order decides between equal times)
OrdersOf(S) == {p \in [1..Cardinality(S) -> S] : \A n \in S : \E i \in DOMAIN p : p[i] = n}
Restrict(p, S) == SelectSeq(p, LAMBDA n : n \in S)
\* A sort that puts the most recently used entry first.
IsSortedDescending(f, ord) == \A i, j \in DOMAIN ord : i < j => f[ord[i]].at >= f[ord[j]].at
IsSorted(f, ord) == \A i, j \in DOMAIN ord : i < j => f[ord[i]].at <= f[ord[j]].at

\* ------------------------------------------------- ImageCache._flush_down
RECURSIVE FlushWalk(_, _, _)
FlushWalk(W, t, lst) ==
    IF lst = << >> \/ IsExc(W.res) THEN W
    ELSE FlushWalk(WriteBack(W, t, Head(lst)), t, Tail(lst))

\* p: the order in which iterkeys() yields the names
FlushDown(W, t, p) ==
    IF t = "pstore" THEN W ELSE FlushWalk(W, t, Restrict(p, DOMAIN W.c[t]))

\* ------------------------------------------- PersistentImageCache.url
\* SwiftImageStore.temporary_url(self, name, lifetime = None) called with
\* (name, lifetime, update_metadata)
TemporaryUrl == "TypeError"

TierUrl(W, t, n) ==
    IF ~Has(W, t, n) THEN [W EXCEPT !.res = "RepositoryFailure"]
    ELSE LET e == W.c[t][n]
             lifetime == IF e.ru < UrlLifetime + now THEN UrlLifetime + now + UrlSlack ELSE e.ru
         IN  IF ~HasPersistence(W, n, e.h) THEN [W EXCEPT !.res = "RepositoryError"]
             ELSE IF IsExc(TemporaryUrl) THEN [W EXCEPT !.res = "RepositoryError"]
             ELSE [W EXCEPT !.c[t][n] = SetRetainUntil(e, lifetime), !.res = TemporaryUrl]

\* ------------------------------------------------------------ CacheMaster
\* the tiers asked from the bottom up
BottomUp == <<"pstore", "pcache", "file", "memory">>

TierOrder == <<"memory", "file", "pcache", "pstore">>

\* CacheMaster._get_entry: the first tier, in order, that holds the name
Holder(W, n) ==
    IF \E i \in 1..4 : Has(W, TierOrder[i], n)
    THEN TierOrder[CHOOSE i \in 1..4 : Has(W, TierOrder[i], n) /\ \A j \in 1..(i - 1) : ~Has(W, TierOrder[j], n)]
    ELSE "none"

MasterGetW(W, n) ==
    IF Holder(W, n) = "none" THEN [W EXCEPT !.res = "None"]
    ELSE [Touch(W, Holder(W, n), n) EXCEPT !.res = "image"]

\* CacheMaster._get_base_images: built on first use from the originals in the
\* memory, local-file and remote-store tiers, each fetched with get
BaseTiers == {"memory", "file", "pstore"}
GetBaseImages(W) ==
    IF W.b.built THEN W
    ELSE [W EXCEPT !.b = [built |-> TRUE, names |-> {n \in Names : IsOriginal(n) /\ \E t \in BaseTiers : Has(W, t, n)}],
                   !.c = [t \in Tiers |-> IF t \in BaseTiers
                                          THEN [n \in DOMAIN W.c[t] |-> IF IsOriginal(n) THEN [W.c[t][n] EXCEPT !.at = clock] ELSE W.c[t][n]]
                                          ELSE W.c[t]]]

\* the index built, and nothing entered into it
IndexOnly(W, n) == GetBaseImages(W)

\* "Keep the base name list up to date" in CacheMaster.add
KeepBaseName(W, n) == LET B == GetBaseImages(W) IN [B EXCEPT !.b.names = @ \cup {n}]

\* `if ref is None` in CacheMaster.add
Declined(res) == res = "None"

\* CacheMaster.add
MasterAddW(W, n, retain, must) ==
    LET W1 == CacheAdd(W, "memory", n, "u", retain, must)
        W2 == IF ~IsExc(W1.res) /\ Declined(W1.res) THEN CacheAdd(W1, "file", n, "u", retain, must) ELSE W1
        W3 == IF ~IsExc(W2.res) /\ Declined(W2.res) THEN CacheAdd(W2, "pcache", n, "u", retain, must) ELSE W2
    IN  IF IsExc(W3.res) THEN W3
        ELSE IF Declined(W3.res) THEN [W3 EXCEPT !.res = "RepositoryFailure"]
        ELSE IF IsOriginal(n) THEN KeepBaseName(W3, n)
        ELSE W3

\* CacheMaster.make_persistent: the artifact Master.get finds is handed to
\* _store_actual of the remote store (originals) or the remote cache, unless
\* its handle already has a persistent copy; neither tier's index is touched
MakePersistentW(W, n) ==
    LET G == MasterGetW(W, n)
        hk == W.c[Holder(W, n)][n].h
        dest == IF IsPermanent(n) THEN "pstore" ELSE "pcache"
    IN  IF Holder(W, n) = "none" THEN [W EXCEPT !.res = "RepositoryFailure"]
        ELSE IF HasPersistence(G, n, hk) \/ hk # "u" THEN [G EXCEPT !.res = "None"]
        ELSE [G EXCEPT !.h[n] = AsPersistent(@, n, dest), !.res = "None"]

\* CacheMaster.url
MasterUrlW(W, n) ==
    LET G == MasterGetW(W, n)
        hk == W.c[Holder(W, n)][n].h
        A == IF IsPermanent(n) THEN StoreAdd(G, n, hk, ShouldRetainParsed(n))
             ELSE CacheAdd(G, "pcache", n, hk, FALSE, FALSE)
    IN  IF Holder(W, n) = "none" THEN [W EXCEPT !.res = "RepositoryFailure"]
        ELSE IF IsExc(A.res) THEN A
        ELSE TierUrl(A, IF IsPermanent(n) THEN "pstore" ELSE "pcache", n)

\* CacheMaster.shutdown: flush_memory, then flush_local_file
ShutdownW(W, p) ==
    LET M == FlushDown(W, "memory", p)
    IN  IF IsExc(M.res) THEN M ELSE FlushDown(M, "file", p)

\* --------------------------------------------------------------- start-up
\* An entry built from the remote listing: PersistentImageCache._initialise
\* (permanent = False, 'lifetime' metadata applied) and
\* PersistentImageStore._initialise (permanent = True)
ListedEntry(n, permanent, lifetime) ==
    [h |-> "r", size |-> BlobLen[n], at |-> 0, prefer |-> ShouldRetainParsed(n),
     must |-> permanent, ru |-> IF lifetime < 1 THEN 0 ELSE lifetime]

RECURSIVE SumOver(_, _)
SumOver(f, D) == IF D = {} THEN 0 ELSE LET k == CHOOSE y \in D : TRUE IN f[k].size + SumOver(f, D \ {k})
SumSizes(f) == SumOver(f, DOMAIN f)

\* PersistentImageStore.__init__ runs _initialise twice: once from the
\* constructor of PersistentImageCache, once itself; each pass adds the
\* listed sizes to _size.
StoreInitialPasses == 2

\* the configurations explored: eager_writeback off (the default) or on in
\* both local tiers; the local-file tier unbounded or bounded, and with a
\* bounded local-file tier the remote cache unbounded (the default) or bounded
Configs ==
    {c \in [memEager : BOOLEAN, fileEager : BOOLEAN, fileMax : {0, FileMaxSmall}, pcacheMax : {0, FileMaxSmall}] :
        c.memEager = c.fileEager /\ (c.pcacheMax # 0 => c.fileMax # 0)}
Originals == {n \in Names : IsOriginal(n)}

\* the remote listings at start-up: the cache container holds nothing or a
\* derived images, with or without 'lifetime' metadata; the store nothing or an original
Listings ==
    {[cache |-> C, store |-> S, lifetime |-> L] :
        C \in SUBSET (Names \ Originals), S \in SUBSET Originals, L \in {0, InitLifetime}}

Init ==
    /\ cfg \in Configs
    /\ \E ls \in Listings :
          LET pc == [n \in ls.cache |-> ListedEntry(n, FALSE, ls.lifetime)]
              ps == [n \in ls.store |-> ListedEntry(n, TRUE, 0)]
          IN  /\ contents = [t \in Tiers |->
                                CASE t = "pcache" -> pc
                                  [] t = "pstore" -> ps
                                  [] OTHER -> << >>]
              /\ used = [t \in Tiers |->
                                CASE t = "pcache" -> SumSizes(pc)
                                  [] t = "pstore" -> StoreInitialPasses * SumSizes(ps)
                                  [] OTHER -> 0]
    /\ handle = [n \in Names |-> InitHandle(n)]
    /\ now = 1
    /\ clock = 1
    /\ baseImages = [built |-> FALSE, names |-> {}]
    /\ mustAdded = {}
    /\ last = [op |-> "init", t |-> "none", n |-> "none", res |-> "None", gone |-> {}]
    /\ nm = "None"
    /\ der = "None"

\* ---------------------------------------------------------------- actions
Commit(W, op, t, n) ==
    /\ contents' = W.c
    /\ used' = W.u
    /\ handle' = W.h
    /\ baseImages' = W.b
    /\ last' = [op |-> op, t |-> t, n |-> n, res |-> W.res,
                 gone |-> IF t \in Tiers THEN DOMAIN contents[t] \ DOMAIN W.c[t] ELSE {}]

Advance == clock' = IF clock < MaxClock THEN clock + 1 ELSE clock

\* a client stores an artifact: CacheMaster.add with the default flags, or
\* CacheMaster.add_image, which takes the flags from the name
MasterAdd(n, policy) ==
    /\ clock < MaxClock
    /\ \E W \in {MasterAddW(World, n, policy /\ IsThumbnail(n), policy /\ IsOriginal(n))} :
          /\ Commit(W, "add", "master", n)
          /\ mustAdded' = IF policy /\ IsOriginal(n) /\ ~IsExc(W.res) THEN mustAdded \cup {n} ELSE mustAdded
    /\ Advance
    /\ UNCHANGED <<nm, der, cfg, now>>

MasterGet(n) ==
    /\ clock < MaxClock
    /\ \E W \in {MasterGetW(World, n)} : Commit(W, "get", "master", n)
    /\ Advance
    /\ UNCHANGED <<nm, der, cfg, now, mustAdded>>

MasterUrl(n) ==
    /\ clock < MaxClock
    /\ \E W \in {MasterUrlW(World, n)} : Commit(W, "url", "master", n)
    /\ Advance
    /\ UNCHANGED <<nm, der, cfg, now, mustAdded>>

MakePersistent(n) ==
    /\ clock < MaxClock
    /\ \E W \in {MakePersistentW(World, n)} : Commit(W, "persist", "master", n)
    /\ Advance
    /\ UNCHANGED <<nm, der, cfg, now, mustAdded>>

\* ImageCache.add called on one tier with the flags the name's policy gives
TierAdd(t, n) ==
    /\ clock < MaxClock
    /\ \E W \in {AddTo(World, t, n, "u", IsThumbnail(n), IsOriginal(n))} : Commit(W, "tieradd", t, n)
    /\ Advance
    /\ UNCHANGED <<nm, der, cfg, now, mustAdded>>

\* ImageCache.delete / PersistentImageStore.delete on one tier
TierDelete(t, n) ==
    /\ n \in DOMAIN contents[t]
    /\ \E W \in {DeleteFrom(World, t, n)} : Commit(W, "delete", t, n)
    /\ UNCHANGED <<nm, der, cfg, now, clock, mustAdded>>

\* CacheMaster.clean_memory / clean_local_file / clean_persistent
CleanTier(t) ==
    /\ t # "pstore"
    /\ \E ord \in OrdersOf(DOMAIN contents[t]) :
          /\ IsSorted(contents[t], ord)
          /\ \E W \in {Clean(World, t, ord)} : Commit(W, "clean", t, "none")
    /\ UNCHANGED <<nm, der, cfg, now, clock, mustAdded>>

Shutdown ==
    /\ \E p \in OrdersOf(DOMAIN contents["memory"] \cup DOMAIN contents["file"]) :
          \E W \in {ShutdownW(World, p)} : Commit(W, "shutdown", "master", "none")
    /\ Advance
    /\ UNCHANGED <<nm, der, cfg, now, mustAdded>>

Tick ==
    /\ now < MaxTime
    /\ now' = now + 1
    /\ last' = [op |-> "tick", t |-> "none", n |-> "none", res |-> "None", gone |-> {}]
    /\ UNCHANGED <<nm, der, cfg, contents, used, handle, clock, baseImages, mustAdded>>

Next ==
    \/ \E n \in Names, policy \in BOOLEAN : MasterAdd(n, policy)
    \/ \E n \in Names : MasterGet(n)
    \/ \E n \in Names : MasterUrl(n)
    \/ \E n \in Names : MakePersistent(n)
    \/ \E t \in Tiers, n \in Names : TierAdd(t, n)
    \/ \E t \in Tiers, n \in Names : TierDelete(t, n)
    \/ \E t \in Tiers : CleanTier(t)
    \/ Shutdown
    \/ Tick

Spec == Init /\ [][Next]_vars

\* The hierarchy as its clients and its housekeeping drive it (adds, gets,
\* cleans, the shutdown flush), under fair scheduling of the shutdown flush
\* and of the cleans.
FlushNext ==
    \/ \E n \in Names, policy \in BOOLEAN : MasterAdd(n, policy)
    \/ \E n \in Names : MasterGet(n)
    \/ \E t \in Tiers : CleanTier(t)
    \/ Shutdown

\* a fresh deployment: both remote containers are empty at start-up
FreshInit == Init /\ contents["pcache"] = << >> /\ contents["pstore"] = << >>

FairSpec ==
    /\ FreshInit
    /\ [][FlushNext]_vars
    /\ WF_vars(Shutdown)
    /\ WF_vars(\E t \in Tiers : CleanTier(t))

\* ------------------------------------------------------------ properties
IssuingTier(n) == IF IsPermanent(n) THEN "pstore" ELSE "pcache"
Persistent(n) == Holder(World, n) # "none" /\ HasPersistence(World, n, contents[Holder(World, n)][n].h)
WithinBounds(t) ==
    /\ MaxElementsOf(t) > 0 => Cardinality(DOMAIN contents[t]) <= MaxElementsOf(t)
    /\ MaxSizeOf(t) > 0 => used[t] <= MaxSizeOf(t)
Oversize(t, n) == MaxSizeOf(t) # 0 /\ handle[n].size * 10 > MaxSizeOf(t)

\* C1: after any sequence of add, get and delete operations, every tier's
\* size_used equals the sum of the size fields of the entries in its index.
C1_SizeUsedIsSumOfSizes ==
    last.op \in {"add", "tieradd", "get", "delete"} =>
        \A t \in Tiers : used[t] = SumSizes(contents[t])

\* C2: whenever an add has returned, a bounded tier holds at most count_max
\* entries and its size_used is at most size_max.
C2_AddLeavesTiersWithinBounds ==
    (last.op \in {"add", "tieradd"} /\ ~IsExc(last.res)) => \A t \in Tiers : WithinBounds(t)

\* C3: no clean removes from its tier an entry for which must_retain holds
\* while its handle has no persistent copy at the moment of removal.
C3_CleanNeverRemovesUnsafe ==
    [][\A t \in Tiers : \A n \in DOMAIN contents[t] :
          (last'.op = "clean" /\ last'.t = t /\ n \notin DOMAIN contents'[t]) =>
              ~(MustRetain(contents[t][n])
                /\ ~(IF contents[t][n].h = "r" THEN TRUE ELSE handle'[n].ppath))]_vars

\* C3, its case: a clean has run on a tier that holds a must-retain entry
\* without persistent copy, met it, and the entry is still there.
C3_Witness ==
    /\ last.op = "clean"
    /\ last.res = "AttributeError"
    /\ \E n \in DOMAIN contents[last.t] : Unsafe(World, last.t, n)

\* C4: after Master.add(N, H, _, must_retain = true) succeeds, eventually
\* the original reaches the remote store: Master.get(N) returns an artifact
\* whose handle has a persistent copy, or the remote store indexes N.
C4_MustRetainEventuallyPersistent ==
    \A n \in Originals : (n \in mustAdded) ~> (Persistent(n) \/ n \in DOMAIN contents["pstore"])

\* C7: Master.url(N) on a held N returns a URL string, and immediately
\* afterwards the retain_until of N's entry in the issuing persistent tier is
\* at least now + url_lifetime.
C7_UrlRetainsForLifetime ==
    (last.op = "url" /\ Holder(World, last.n) # "none") =>
        /\ last.res = "url"
        /\ last.n \in DOMAIN contents[IssuingTier(last.n)]
        /\ contents[IssuingTier(last.n)][last.n].ru >= now + UrlLifetime

\* C8: a first url(N) at time t sets retain_until within [t + L, t + L + S];
\* a url(N) issued while retain_until is still at least now + L leaves it as it is.
C8_UrlSlackWindow ==
    [][\A n \in Names :
          (last'.op = "url" /\ last'.n = n /\ Holder(World, n) # "none") =>
              LET t == IssuingTier(n)
              IN  /\ last'.res = "url"
                  /\ n \in DOMAIN contents'[t]
                  /\ IF n \in DOMAIN contents[t] /\ contents[t][n].ru >= now + UrlLifetime
                     THEN contents'[t][n].ru = contents[t][n].ru
                     ELSE contents'[t][n].ru \in (now + UrlLifetime)..(now + UrlLifetime + UrlSlack)]_vars

\* C9: Tier.add of a handle larger than a tenth of the tier's size_max is
\* refused with OversizeRejected (the add returns False) and leaves the
\* tier's contents and size_used unchanged.
C9_OversizeRefused ==
    [][\A t \in Tiers, n \in Names :
          (last'.op = "tieradd" /\ last'.t = t /\ last'.n = n
           /\ n \notin DOMAIN contents[t] /\ Oversize(t, n)) =>
              /\ last'.res = "False"
              /\ contents'[t] = contents[t]
              /\ used'[t] = used[t]]_vars

\* C10: when the memory tier declines an artifact by size and the local-file
\* tier does not, Master.add returns successfully and the local-file tier,
\* the first tier in order that accepts it, holds the artifact.
C10_OversizeFallsThrough ==
    [][\A n \in Names :
          (last'.op = "add" /\ last'.n = n /\ Holder(World, n) = "none"
           /\ Oversize("memory", n) /\ ~Oversize("file", n)) =>
              /\ ~IsExc(last'.res)
              /\ n \notin DOMAIN contents'["memory"]
              /\ n \in DOMAIN contents'["file"]]_vars

\* ================================================================ names
\* A string is a sequence of tokens.  The characters the name grammar gives
\* a meaning to ("+", "(", ")", ",", ".") are tokens of their own, a
\* percent-escape ("%28") is one token, and any other token is a run of
\* characters without meaning to the grammar.
MaxApplied == 2       \* derivation steps applied to one name

\* urllib.quote(s, safe = "") and urllib.unquote(s), token by token
QuoteToken(c) ==
    CASE c = "(" -> "%28" [] c = ")" -> "%29" [] c = "+" -> "%2B" [] c = "," -> "%2C"
      [] c = "%28" -> "%2528" [] c = "%29" -> "%2529" [] OTHER -> c
UnquoteToken(c) ==
    CASE c = "%28" -> "(" [] c = "%29" -> ")" [] c = "%2B" -> "+" [] c = "%2C" -> ","
      [] c = "%2528" -> "%28" [] c = "%2529" -> "%29" [] OTHER -> c
Quote(s) == [i \in 1..Len(s) |-> QuoteToken(s[i])]
Unquote(s) == [i \in 1..Len(s) |-> UnquoteToken(s[i])]

\* re.split(d, s)
RECURSIVE Split(_, _)
Split(s, d) ==
    IF \A i \in 1..Len(s) : s[i] # d THEN <<s>>
    ELSE LET i == CHOOSE k \in 1..Len(s) : s[k] = d /\ \A j \in 1..(k - 1) : s[j] # d
         IN  <<SubSeq(s, 1, i - 1)>> \o Split(SubSeq(s, i + 1, Len(s)), d)

\* os.path.splitext(s): the extension starts at the last dot, unless only
\* dots come before it
SplitExt(s) ==
    LET dots == {i \in 1..Len(s) : s[i] = "."}
        i == CHOOSE k \in dots : \A j \in dots : j <= k
    IN  IF dots = {} THEN <<s, << >> >>
        ELSE IF \A j \in 1..(i - 1) : s[j] = "." THEN <<s, << >> >>
        ELSE <<SubSeq(s, 1, i - 1), SubSeq(s, i, Len(s))>>

\* "{}".format(i) of an integer
Format(i) == <<ToString(i)>>

\* An optional argument is << >> (None) or <<v>>.
NoArg == << >>
Given(v) == <<v>>

\* the configuration defaults the names use
ThumbnailDefaultFormat == <<"jpg">>
ThumbnailDefaultSize == <<50, 50>>
ThumbnailEqualise == TRUE
ThumbnailLiquid == TRUE
ThumbnailSharpen == TRUE

\* ImageName.__init__ before the parse: orig = << >> is _original_name None,
\* size = << >> is a missing _size attribute
NewName(kind) ==
    [base |-> <<"None">>, kind |-> kind, ops |-> << >>, clone |-> FALSE, orig |-> NoArg,
     isOriginal |-> FALSE, isDerived |-> FALSE, isBase |-> FALSE, isThumbnail |-> FALSE,
     isResize |-> FALSE, isConvert |-> FALSE, isMetadata |-> FALSE,
     liquid |-> FALSE, equalise |-> FALSE, sharpen |-> FALSE, size |-> NoArg]

\* the loop of ImageName._parse_name over the components after the base name;
\* a component whose parameters do not unpack ends the parse where it stands
RECURSIVE ParseOps(_, _)
ParseOps(name, comps) ==
    IF comps = << >> THEN name
    ELSE LET op == Head(comps)
             nb == [name EXCEPT !.isBase = FALSE]
             parts == Split(op, "(")
             args == Split(SubSeq(parts[2], 1, Len(parts[2]) - 1), ",")
             Kept(m) == ParseOps([m EXCEPT !.ops = Append(@, op)], Tail(comps))
         IN  IF Len(parts) # 2 THEN ParseOps(nb, Tail(comps))
             ELSE CASE parts[1] = <<"clone">> -> ParseOps([nb EXCEPT !.clone = TRUE], Tail(comps))
                    [] parts[1] = <<"original">> ->
                         Kept([nb EXCEPT !.isOriginal = TRUE, !.isDerived = FALSE,
                                         !.orig = Given(Quote(SubSeq(parts[2], 1, Len(parts[2]) - 1)))])
                    [] parts[1] = <<"size">> ->
                         LET m == [nb EXCEPT !.isDerived = TRUE, !.isResize = TRUE]
                         IN  IF Len(args) # 2 THEN m ELSE Kept(m)
                    [] parts[1] = <<"crop">> ->
                         LET m == [nb EXCEPT !.isDerived = TRUE]
                         IN  IF Len(args) # 4 THEN m ELSE Kept(m)
                    [] parts[1] = <<"thumbnail">> ->
                         LET m == [nb EXCEPT !.isDerived = TRUE]
                         IN  IF Len(args) # 3 THEN m
                             ELSE Kept([m EXCEPT !.liquid = \E i \in 1..Len(args[3]) : args[3][i] = "l",
                                                 !.equalise = \E i \in 1..Len(args[3]) : args[3][i] = "e",
                                                 !.sharpen = \E i \in 1..Len(args[3]) : args[3][i] = "s"])
                    [] parts[1] = <<"convert">> ->
                         Kept([nb EXCEPT !.isDerived = TRUE, !.isOriginal = FALSE, !.isConvert = TRUE])
                    [] parts[1] = <<"metadata">> ->
                         Kept([nb EXCEPT !.isDerived = TRUE, !.isOriginal = FALSE, !.isMetadata = TRUE])
                    [] OTHER -> ParseOps(nb, Tail(comps))

\* ImageName(image_name, kind): kind = NoArg takes the kind from the extension
ImageName(s, kind) ==
    LET se == SplitExt(s)
        head == IF kind = NoArg THEN se[1] ELSE s
        k == IF kind = NoArg THEN (IF se[2] = << >> THEN << >> ELSE Tail(se[2])) ELSE kind[1]
        comps == Split(head, "+")
    IN  ParseOps([NewName(k) EXCEPT !.base = comps[1], !.isBase = TRUE], Tail(comps))

\* ImageName.from_safe(safe_name)
FromSafe(s) == ImageName(Unquote(s), NoArg)

RECURSIVE JoinOps(_)
JoinOps(ops) == IF ops = << >> THEN << >> ELSE <<"+">> \o Head(ops) \o JoinOps(Tail(ops))

\* ImageName.__str__
Str(name) ==
    name.base
    \o (IF name.clone THEN <<"+", "clone", "(", ")">> ELSE << >>)
    \o (IF Len(name.ops) # 0 THEN JoinOps(name.ops)
        ELSE IF name.orig # NoArg \/ name.isOriginal
             THEN <<"+", "original", "(">> \o (IF name.orig = NoArg THEN <<"None">> ELSE name.orig[1]) \o <<")">>
             ELSE << >>)
    \o <<".">> \o name.kind

\* ImageName.clone(kind)
Clone(name, kind) ==
    ImageName(name.base \o <<"+", "clone", "(", ")">> \o JoinOps(name.ops),
              IF kind # NoArg THEN kind ELSE Given(name.kind))

\* ImageName.make_original(name)
MakeOriginal(name, raw) ==
    [name EXCEPT !.clone = FALSE, !.ops = << >>, !.isOriginal = TRUE,
                 !.orig = IF raw # NoArg THEN raw ELSE @]

\* ImageName.apply_thumbnail(size, kind, **kwargs): kwargs is a function from
\* the keywords passed to their values
ApplyThumbnail(name, size, kind, kwargs) ==
    LET sz == IF size = NoArg THEN ThumbnailDefaultSize ELSE size[1]
        e == IF "equalise" \in DOMAIN kwargs THEN kwargs["equalise"] ELSE ThumbnailEqualise
        s == IF "sharpen" \in DOMAIN kwargs THEN kwargs["sharpen"] ELSE ThumbnailSharpen
        l == IF "liquid" \in DOMAIN kwargs THEN kwargs["liquid"] ELSE ThumbnailLiquid
        encoded == (IF e THEN <<"e">> ELSE << >>) \o (IF l THEN <<"l">> ELSE << >>)
                   \o (IF s THEN <<"s">> ELSE << >>)
    IN  [name EXCEPT !.clone = FALSE, !.isDerived = TRUE, !.isThumbnail = TRUE, !.isBase = FALSE,
                     !.size = Given(sz),
                     !.kind = IF kind = NoArg THEN ThumbnailDefaultFormat ELSE kind[1],
                     !.equalise = e, !.liquid = l, !.sharpen = s,
                     !.ops = Append(@, <<"thumbnail", "(">> \o Format(sz[1]) \o <<",">> \o Format(sz[2])
                                       \o <<",">> \o encoded \o <<")">>)]

\* ImageName.apply_resize(size, kind)
ApplyResize(name, size, kind) ==
    [name EXCEPT !.clone = FALSE, !.isDerived = TRUE, !.isBase = FALSE, !.isResize = TRUE,
                 !.ops = Append(@, <<"size", "(">> \o Format(size[1]) \o <<",">> \o Format(size[2]) \o <<")">>),
                 !.kind = IF kind # NoArg THEN kind[1] ELSE @]

\* ImageName.apply_crop(size, origin, kind)
ApplyCrop(name, size, origin, kind) ==
    [name EXCEPT !.clone = FALSE, !.isDerived = TRUE, !.isBase = FALSE,
                 !.ops = Append(@, <<"crop", "(">> \o Format(size[1]) \o <<",">> \o Format(size[2]) \o <<",">>
                                   \o Format(origin[1]) \o <<",">> \o Format(origin[2]) \o <<")">>),
                 !.kind = IF kind # NoArg THEN kind[1] ELSE @]

\* ImageName.apply_metadata(kind)
ApplyMetadata(name, kind) ==
    [name EXCEPT !.clone = FALSE, !.isDerived = TRUE, !.isMetadata = TRUE,
                 !.ops = << <<"metadata", "(">> \o kind \o <<")">> >>, !.kind = kind]

\* ImageName.apply_convert(kind)
ApplyConvert(name, kind) ==
    IF name.isDerived THEN [name EXCEPT !.clone = FALSE]
    ELSE [name EXCEPT !.clone = FALSE, !.isDerived = TRUE,
                      !.ops = Append(@, <<"convert", "(">> \o kind \o <<")">>), !.kind = kind]

\* ---------------------------------------------------- building a name
\* The file names an original is loaded from, as OriginalImage.from_file
\* receives them: with and without an extension, with escaped and with plain
\* brackets, and with a plus sign.
RawNames ==
    { <<"b", ".", "jpg">>, <<"b">>, <<"b", "%28", "1", "%29", ".", "jpg">>,
      <<"b", "(", "1", ")", ".", "jpg">>, <<"b", "+", "b", ".", "png">> }
Kinds == { <<"jpg">>, <<"png">> }
Sizes == { <<1, 2>> }

\* the cache hierarchy stands still while a name is built
CacheVars == <<cfg, contents, used, handle, now, clock, baseImages, mustAdded, last>>
CacheIdle ==
    /\ cfg = [memEager |-> FALSE, fileEager |-> FALSE, fileMax |-> 0, pcacheMax |-> 0]
    /\ contents = [t \in Tiers |-> << >>]
    /\ used = [t \in Tiers |-> 0]
    /\ handle = [n \in Names |-> InitHandle(n)]
    /\ now = 1
    /\ clock = 1
    /\ baseImages = [built |-> FALSE, names |-> {}]
    /\ mustAdded = {}
    /\ last = [op |-> "init", t |-> "none", n |-> "none", res |-> "None", gone |-> {}]

NameInit ==
    /\ CacheIdle
    /\ der = "None"
    /\ nm \in {[name |-> FromSafe(r), raw |-> r, applied |-> 0, op |-> "parse"] : r \in RawNames}

Applied(name, op) ==
    /\ nm.applied < MaxApplied
    /\ nm' = [nm EXCEPT !.name = name, !.applied = @ + 1, !.op = op]
    /\ UNCHANGED <<der, CacheVars>>

ThumbnailStep(size, kind) == Applied(ApplyThumbnail(nm.name, size, kind, << >>), "thumbnail")
ResizeStep(size, kind) == Applied(ApplyResize(nm.name, size, kind), "resize")
CropStep(size, origin, kind) == Applied(ApplyCrop(nm.name, size, origin, kind), "crop")
ConvertStep(kind) == Applied(ApplyConvert(nm.name, kind), "convert")
MetadataStep == Applied(ApplyMetadata(nm.name, <<"jsn">>), "metadata")
\* OriginalImage.from_file: image_name.make_original(name) with the file name
OriginalStep == Applied(MakeOriginal(nm.name, Given(nm.raw)), "original")

NameNext ==
    \/ \E size \in {NoArg} \cup {Given(z) : z \in Sizes}, kind \in {NoArg} \cup {Given(k) : k \in Kinds} :
          ThumbnailStep(size, kind)
    \/ \E size \in Sizes, kind \in {NoArg} \cup {Given(k) : k \in Kinds} : ResizeStep(size, kind)
    \/ \E size \in Sizes, kind \in {NoArg} \cup {Given(k) : k \in Kinds} : CropStep(size, <<0, 0>>, kind)
    \/ \E kind \in Kinds : ConvertStep(kind)
    \/ MetadataStep
    \/ OriginalStep

NameSpec == NameInit /\ [][NameNext]_vars

\* C5: for every name built by parsing a base name and applying any sequence
\* of make_original / apply_thumbnail / apply_resize / apply_crop /
\* apply_convert / apply_metadata, parsing the rendered string and rendering
\* again yields the identical string.
C5_ParseInvertsRender == Str(ImageName(Str(nm.name), NoArg)) = Str(nm.name)

\* The round trip of the names whose file name holds no character the grammar
\* gives a meaning to.
RoundTripOfPlainFileNames ==
    (\A i \in 1..Len(nm.raw) : nm.raw[i] \notin {"(", "+"}) => C5_ParseInvertsRender

\* ============================================================ derivation
\* The original "b.jpg" as OriginalImage.from_file names it, and the base
\* image OriginalImage.baseimage(full_name = True) makes of it.
OriginalName == MakeOriginal(FromSafe(<<"b", ".", "jpg">>), Given(<<"b", ".", "jpg">>))
BaseImageName == ImageName(Str(ImageName(OriginalName.base, Given(OriginalName.kind))), NoArg)
\* ImageHandle.kind() of the base image: its handle is a clone built without
\* a kind, so the kind is the format the image library reports
WandFormat(kind) == IF kind = <<"jpg">> THEN <<"JPEG">> ELSE IF kind = <<"png">> THEN <<"PNG">> ELSE kind

Exc(e) == [res |-> e, name |-> "None"]
Image(name) == [res |-> "image", name |-> name]

\* ImageInstance.thumbnail(size, options) and ImageInstance.convert(kind) of
\* the base image; cache is the master's cache, consulted by thumbnail
InstanceThumbnail(cache, size, options) ==
    LET the_name == ApplyThumbnail(Clone(BaseImageName, NoArg), Given(size), NoArg, options)
    IN  IF Str(the_name) \in DOMAIN cache THEN Image(cache[Str(the_name)]) ELSE Image(the_name)
InstanceConvert(kind) == Image(ApplyConvert(Clone(BaseImageName, Given(kind)), kind))

\* ImageInstance.as_defined(name) of the base image
AsDefined(cache, name) ==
    IF ~name.isDerived THEN Image(BaseImageName)
    ELSE IF name.isMetadata THEN Exc("AttributeError")
    ELSE IF name.isThumbnail
         THEN IF name.size = NoArg THEN Exc("AttributeError")
              ELSE InstanceThumbnail(cache, name.size[1],
                       [liquid |-> name.liquid, equalize |-> name.equalise, sharpen |-> name.sharpen])
    ELSE IF name.isResize THEN Exc("AttributeError")
    ELSE IF name.kind # WandFormat(BaseImageName.kind) THEN InstanceConvert(name.kind)
    ELSE Exc("RepositoryError")

\* CacheMaster.get_as_defined(definition_name); the artifacts derived here
\* have size 0, so CacheMaster.add stores them in the memory tier, which
\* keeps the entry it already has under a name
GetAsDefinedW(D, definition_name) ==
    LET key == Str(definition_name)
        Ended(res, got) == [key |-> key, res |-> res, got |-> got, derived |-> definition_name.isDerived]
        edge == ~definition_name.isDerived /\ definition_name.kind # BaseImageName.kind
        name == IF edge THEN ApplyConvert(definition_name, definition_name.kind) ELSE definition_name
        new_image == AsDefined(D.cache, name)
        added == IF Str(name) \in DOMAIN D.cache THEN D.cache
                 ELSE (Str(name) :> new_image.name) @@ D.cache
    IN  IF key \in DOMAIN D.cache THEN [D EXCEPT !.last = Ended("image", Str(D.cache[key]))]
        ELSE IF ~D.built THEN [D EXCEPT !.last = Ended("TypeError", "None")]
        ELSE IF definition_name.base # OriginalName.base THEN [D EXCEPT !.last = Ended("RepositoryError", "None")]
        ELSE IF new_image.res # "image" THEN [D EXCEPT !.last = Ended(new_image.res, "None")]
        ELSE IF Str(new_image.name) # Str(name)
             THEN [D EXCEPT !.cache = added, !.last = Ended("RepositoryFailure", "None")]
        ELSE [D EXCEPT !.cache = added, !.last = Ended("image", Str(new_image.name))]

\* The names the REST resource asks for (ImageName(name, kind), then
\* apply_thumbnail or apply_resize), and names built through the library:
\* a crop, a metadata extraction, a parsed canonical string, an unknown base.
RestKinds == Kinds
Plain(kind) == ImageName(<<"b">>, Given(kind))
Requests ==
    {Plain(k) : k \in RestKinds}
    \cup {ApplyThumbnail(Plain(k), size, Given(k), << >>) :
             k \in RestKinds, size \in {NoArg} \cup {Given(z) : z \in Sizes}}
    \cup {ApplyResize(Plain(k), z, Given(k)) : k \in RestKinds, z \in Sizes}
    \cup {ApplyCrop(Plain(k), z, <<0, 0>>, NoArg) : k \in RestKinds \cup {<<"JPEG">>}, z \in Sizes}
    \cup {ApplyMetadata(Plain(<<"jpg">>), <<"jsn">>),
          ImageName(<<"b", "+", "thumbnail", "(", "1", ",", "2", ",", "e", "l", "s", ")", ".", "jpg">>, NoArg),
          ImageName(<<"c">>, Given(<<"jpg">>))}

DeriveInit ==
    /\ CacheIdle
    /\ nm = "None"
    /\ der = [cache |-> << >>, built |-> FALSE,
              last |-> [key |-> "None", res |-> "None", got |-> "None", derived |-> FALSE]]

GetAsDefined(definition_name) ==
    /\ der' = GetAsDefinedW(der, definition_name)
    /\ UNCHANGED <<nm, CacheVars>>

\* CacheMaster._get_base_images, run by the listing and upload requests
BuildBaseImages ==
    /\ ~der.built
    /\ der' = [der EXCEPT !.built = TRUE]
    /\ UNCHANGED <<nm, CacheVars>>

DeriveNext ==
    \/ \E definition_name \in Requests : GetAsDefined(definition_name)
    \/ BuildBaseImages

DeriveSpec == DeriveInit /\ [][DeriveNext]_vars

\* C6: whenever get_as_defined(N) returns for a derived name N, the name of
\* the returned artifact renders to exactly render(N).
C6_AsDefinedNameMatches ==
    (der.last.res = "image" /\ der.last.derived) => der.last.got = der.last.key

\* ======================================================= further properties
\* C11: if none of the memory, local-file and remote-cache tiers accepts the
\* artifact (it is oversize for each of them and none holds it), Master.add
\* fails with CapacityExceeded (RepositoryFailure).
C11_NoTierAcceptsFailsWithCapacity ==
    (/\ last.op = "add"
     /\ \A t \in {"memory", "file", "pcache"} : Oversize(t, last.n) /\ last.n \notin DOMAIN contents[t])
        => last.res = "RepositoryFailure"

\* the class _clean puts an entry in
InKillClass(t, n) == ~Unsafe(World, t, n) /\ ~contents[t][n].prefer
InRetainedClass(t, n) == ~Unsafe(World, t, n) /\ contents[t][n].prefer

\* C12: in a clean, entries are evicted oldest access first within each
\* class, and no entry with prefer_retain is evicted while an entry without
\* it, and not (must_retain and without persistence), is still in the tier.
C12_CleanEvictsInOrder ==
    [][\A t \in Tiers : \A n \in DOMAIN contents[t] :
          (last'.op = "clean" /\ last'.t = t /\ n \notin DOMAIN contents'[t]) =>
              /\ \A m \in DOMAIN contents[t] :
                    (/\ contents[t][m].at < contents[t][n].at
                     /\ \/ InKillClass(t, m) /\ InKillClass(t, n)
                        \/ InRetainedClass(t, m) /\ InRetainedClass(t, n))
                        => m \notin DOMAIN contents'[t]
              /\ contents[t][n].prefer =>
                    \A m \in DOMAIN contents[t] : InKillClass(t, m) => m \notin DOMAIN contents'[t]]_vars

\* C12, its case: a clean has evicted an entry from a tier and a more
\* recently used entry of the same tier, evictable as well, is still there.
C12_Witness ==
    /\ last.op = "clean"
    /\ last.gone # {}
    /\ \E m \in DOMAIN contents[last.t] : InKillClass(last.t, m) /\ contents[last.t][m].at > 1

\* C13: an insert that puts a tier over its count bound triggers a clean
\* that frees at least hysteresis * count_max entries before the add returns.
C13_InsertOverBoundFrees ==
    [][\A t \in Tiers, n \in Names :
          (/\ last'.op \in {"add", "tieradd"}
           /\ t = (IF last'.op = "add" THEN "memory" ELSE last'.t)
           /\ last'.n = n
           /\ n \notin DOMAIN contents[t] /\ n \in DOMAIN contents'[t]
           /\ MaxElementsOf(t) > 0
           /\ Cardinality(DOMAIN contents[t]) + 1 > MaxElementsOf(t))
              => Cardinality(DOMAIN contents[t] \ DOMAIN contents'[t]) * 10 >= Hysterysis10 * MaxElementsOf(t)]_vars

\* ================================================ concurrent derivation
\* CacheMaster.get_as_defined takes no lock, so a request thread can be
\* pre-empted between its statements.  A call is cut in three steps: the
\* lookup (self.get), the derivation (base_image.as_defined), and the rest
\* (self.add, the comparison of the names, the return).
Callers == {1, 2}
ConcRequests ==
    {ApplyThumbnail(Plain(k), NoArg, Given(k), << >>) : k \in RestKinds}
    \cup {ApplyCrop(Plain(<<"jpg">>), <<1, 2>>, <<0, 0>>, NoArg),
          ApplyResize(Plain(<<"jpg">>), <<1, 2>>, Given(<<"jpg">>))}
ConcKeys == {Str(r) : r \in ConcRequests}

\* the name get_as_defined derives, after the edge case of a bare conversion
DefinitionName(definition_name) ==
    IF ~definition_name.isDerived /\ definition_name.kind # BaseImageName.kind
    THEN ApplyConvert(definition_name, definition_name.kind) ELSE definition_name

\* whether as_defined calls into the image library: not for the base image
\* itself, nor for a thumbnail ImageInstance.thumbnail finds in the cache
CallsEngine(cache, name) ==
    /\ name.isDerived
    /\ name.isThumbnail =>
          Str(ApplyThumbnail(Clone(BaseImageName, NoArg), Given(name.size[1]), NoArg,
                             [liquid |-> name.liquid, equalize |-> name.equalise, sharpen |-> name.sharpen]))
             \notin DOMAIN cache

IdleCall == [pc |-> "idle", key |-> << >>, name |-> "None", image |-> "None", res |-> "None", got |-> << >>]

ConcInit ==
    /\ CacheIdle
    /\ nm = "None"
    /\ der = [cache |-> << >>, built |-> TRUE,
              last |-> [key |-> "None", res |-> "None", got |-> "None", derived |-> FALSE],
              calls |-> [p \in Callers |-> IdleCall],
              runs |-> [k \in ConcKeys |-> 0]]

\* image = self.get(definition_name); return it when it is there
Lookup(p, definition_name) ==
    /\ der.calls[p].pc = "idle"
    /\ LET key == Str(definition_name)
       IN  der' = IF key \in DOMAIN der.cache
                  THEN [der EXCEPT !.calls[p] = [IdleCall EXCEPT !.key = key, !.res = "image", !.got = Str(der.cache[key])]]
                  ELSE [der EXCEPT !.calls[p] = [IdleCall EXCEPT !.pc = "derive", !.key = key,
                                                                 !.name = DefinitionName(definition_name)]]
    /\ UNCHANGED <<nm, CacheVars>>

\* new_image = base_image.as_defined(definition_name)
Derive(p) ==
    /\ der.calls[p].pc = "derive"
    /\ LET c == der.calls[p]
           new_image == AsDefined(der.cache, c.name)
       IN  der' = IF new_image.res # "image"
                  THEN [der EXCEPT !.calls[p] = [IdleCall EXCEPT !.key = c.key, !.res = new_image.res]]
                  ELSE [der EXCEPT !.calls[p] = [c EXCEPT !.pc = "store", !.image = new_image.name],
                                   !.runs[c.key] = IF CallsEngine(der.cache, c.name) THEN @ + 1 ELSE @]
    /\ UNCHANGED <<nm, CacheVars>>

\* self.add(definition_name, new_image), the comparison of the names, return
Store(p) ==
    /\ der.calls[p].pc = "store"
    /\ LET c == der.calls[p]
           added == IF Str(c.name) \in DOMAIN der.cache THEN der.cache ELSE (Str(c.name) :> c.image) @@ der.cache
       IN  der' = [der EXCEPT !.cache = added,
                              !.calls[p] = IF Str(c.image) # Str(c.name)
                                           THEN [IdleCall EXCEPT !.key = c.key, !.res = "RepositoryFailure"]
                                           ELSE [IdleCall EXCEPT !.key = c.key, !.res = "image", !.got = Str(c.image)]]
    /\ UNCHANGED <<nm, CacheVars>>

ConcNext ==
    \/ \E p \in Callers, definition_name \in ConcRequests : Lookup(p, definition_name)
    \/ \E p \in Callers : Derive(p)
    \/ \E p \in Callers : Store(p)

ConcSpec == ConcInit /\ [][ConcNext]_vars

\* C14: concurrent get_as_defined calls on one derived name that no tier
\* holds run the derivation once (never two derivations of one name, in
\* flight or completed), and the callers that are handed an artifact are
\* handed identically named ones.
C14_DerivationRunsOnce ==
    /\ \A k \in ConcKeys : der.runs[k] <= 1
    /\ \A p, q \in Callers :
          (der.calls[p].key = der.calls[q].key /\ der.calls[p].res = "image" /\ der.calls[q].res = "image")
              => der.calls[p].got = der.calls[q].got

\* ------------------------------------------------ local-file tier start-up
\* LocalFileImageCache.__init__ with initialise = False (the default) runs
\* _check_state over the files the cache directory already holds.  A file is
\* named by ImageName.safe_name of the canonical name it was stored under
\* (ImageHandle.as_file), or it is some other file whose name starts with '.'.
DirStatSize == 4      \* st_size the file system reports for the cache directory itself
SafeName(n) == <<"%", n>>
UnsafeName(f) == f[2]
DotFile == <<".", "part">>
DirFiles == {SafeName(n) : n \in Names} \cup {DotFile}
FileLen(f) == IF f = DotFile THEN 1 ELSE BlobLen[UnsafeName(f)]

\* the entries _check_state builds: one per file whose name does not start
\* with '.', keyed by the unquoted file name, each sized by os.stat(path),
\* where path is the cache directory
CheckState(dir, st_size) ==
    [n \in {UnsafeName(f) : f \in {g \in dir : g[1] # "."}} |->
        [h |-> "f", size |-> st_size, at |-> 0, prefer |-> ShouldRetainParsed(n),
         must |-> IsPermanent(n), ru |-> 0]]

StartInit ==
    /\ \E dir \in SUBSET DirFiles :
          /\ cfg = [memEager |-> FALSE, fileEager |-> FALSE, fileMax |-> 0, pcacheMax |-> 0,
                    initialise |-> FALSE, dir |-> dir]
          /\ contents = [t \in Tiers |-> IF t = "file" THEN CheckState(dir, DirStatSize) ELSE << >>]
          /\ used = [t \in Tiers |-> IF t = "file" THEN SumSizes(CheckState(dir, DirStatSize)) ELSE 0]
    /\ handle = [n \in Names |-> InitHandle(n)]
    /\ now = 1
    /\ clock = 1
    /\ baseImages = [built |-> FALSE, names |-> {}]
    /\ mustAdded = {}
    /\ last = [op |-> "start", t |-> "file", n |-> "none", res |-> "None", gone |-> {}]
    /\ nm = "None"
    /\ der = "None"

\* CacheMaster.list_base_images with no regexp
ListBaseImages ==
    /\ clock < MaxClock
    /\ \E W \in {GetBaseImages(World)} : Commit(W, "list", "master", "none")
    /\ Advance
    /\ UNCHANGED <<nm, der, cfg, now, mustAdded>>

StartNext ==
    \/ ListBaseImages
    \/ \E n \in Names : MasterGet(n)
    \/ \E n \in Names : MasterAdd(n, FALSE)
    \/ Tick

StartSpec == StartInit /\ [][StartNext]_vars

RECURSIVE SumFileLen(_)
SumFileLen(D) == IF D = {} THEN 0 ELSE LET f == CHOOSE g \in D : TRUE IN FileLen(f) + SumFileLen(D \ {f})

\* C15: when the local-file tier has started with initialise = false over a
\* directory, it contains the canonical name of every file whose name does
\* not begin with '.', and its size_used is the sum of those files' sizes.
C15_StartUpAdoptsDirectory ==
    last.op = "start" =>
        /\ \A f \in cfg.dir : f[1] # "." => UnsafeName(f) \in DOMAIN contents["file"]
        /\ used["file"] = SumFileLen({f \in cfg.dir : f[1] # "."})

\* C16: once Master.add of an original has succeeded, list_base_images()
\* contains its base name, whether or not the index had been built before.
C16_AddedOriginalIsListed ==
    (last.op = "add" /\ IsOriginal(last.n) /\ ~IsExc(last.res))
        => last.n \in GetBaseImages(World).b.names

\* an original added after the index was built over a directory without it
C16_Witness ==
    /\ last.op = "add" /\ IsOriginal(last.n) /\ last.res = "True"
    /\ SafeName(last.n) \notin cfg.dir
    /\ baseImages.built /\ last.n \in baseImages.names
    /\ clock = MaxClock

\* C17: Tier.add of a name the tier already holds returns success and
\* changes nothing: not the tier's contents, not the entry held (handle,
\* retention flags), not size_used; for each of the four tiers.
C17_AddOfPresentNameIsNoOp ==
    [][(last'.op = "tieradd" /\ last'.n \in DOMAIN contents[last'.t]) =>
          /\ last'.res = "True"
          /\ contents' = contents
          /\ used' = used
          /\ handle' = handle]_vars

\* a remote tier still holds the entry it listed at start-up after a client
\* added an artifact under that name
C17_Witness ==
    /\ last.op = "tieradd" /\ last.res = "True"
    /\ last.n \in DOMAIN contents[last.t]
    /\ contents[last.t][last.n].h = "r"

\* the first tier, from memory down, that holds n
FirstHolding(n) ==
    IF n \in DOMAIN contents["memory"] THEN "memory"
    ELSE IF n \in DOMAIN contents["file"] THEN "file"
    ELSE IF n \in DOMAIN contents["pcache"] THEN "pcache"
    ELSE IF n \in DOMAIN contents["pstore"] THEN "pstore"
    ELSE "none"

\* C18: Master.get(name) is served by the first of memory, local file,
\* remote cache, remote store that holds the name: it returns that tier's
\* artifact (the get of that tier, and of no other, stamps the access time
\* of its entry), and it returns nothing exactly when no tier holds the name.
C18_GetServedByFirstHolder ==
    [][last'.op = "get" =>
          LET n == last'.n
              t == FirstHolding(n)
          IN  IF t = "none"
              THEN last'.res = "None" /\ contents' = contents
              ELSE /\ last'.res = "image"
                   /\ contents'[t] = [contents[t] EXCEPT ![n].at = clock]
                   /\ \A u \in Tiers \ {t} : contents'[u] = contents[u]]_vars

\* a get of a name that two tiers hold, an earlier access stamped on the lower one
C18_Witness ==
    /\ last.op = "get" /\ last.res = "image"
    /\ \E t, u \in Tiers :
          /\ t = FirstHolding(last.n) /\ u # t
          /\ last.n \in DOMAIN contents[u]
          /\ contents[t][last.n].at > contents[u][last.n].at

\* the tier's index holds n, or the tier's container holds the object the
\* client's handle was uploaded as
HoldsOrStores(t, n) ==
    n \in DOMAIN contents[t] \/ (handle[n].ppath /\ handle[n].store = t)

\* C19: after Master.make_persistent(name) has succeeded, the remote store
\* holds name if name is an original, and the remote cache holds it otherwise.
C19_MakePersistentReachesItsTier ==
    (last.op = "persist" /\ ~IsExc(last.res))
        => HoldsOrStores(IF IsOriginal(last.n) THEN "pstore" ELSE "pcache", last.n)

KnownOps == {<<"original">>, <<"size">>, <<"crop">>, <<"thumbnail">>, <<"convert">>, <<"metadata">>, <<"clone">>}
ParseComponents ==
    { <<"thumbnail", "(", "50", ",", "50", ",", "els", ")">>, <<"size", "(", "1", ",", "2", ")">>,
      <<"crop", "(", "1", ",", "2", ",", "0", ",", "0", ")">>, <<"convert", "(", "png", ")">>,
      <<"metadata", "(", "jsn", ")">>, <<"original", "(", "b", ")">>, <<"clone", "(", ")">>,
      <<"rotate", "(", "90", ")">>, <<"blur", "(", "1", ")">> }
ParseInputs ==
    {<< >>} \cup {<<c>> : c \in ParseComponents} \cup {<<c, d>> : c, d \in ParseComponents}
Rendered(comps, kind) == <<"b">> \o JoinOps(comps) \o <<".">> \o kind

ParseInit ==
    /\ CacheIdle
    /\ der = "None"
    /\ \E comps \in ParseInputs, kind \in Kinds :
          nm = [raw |-> Rendered(comps, kind), comps |-> comps, parsed |-> FALSE,
                res |-> "None", name |-> NewName(kind)]

\* ImageName(image_name): __init__ catches whatever _parse_name raises and
\* returns the name as far as it was filled in
ParseStep ==
    /\ ~nm.parsed
    /\ nm' = [nm EXCEPT !.parsed = TRUE, !.res = "name", !.name = ImageName(nm.raw, NoArg)]
    /\ UNCHANGED <<der, CacheVars>>

ParseSpec == ParseInit /\ [][ParseStep]_vars

HasUnknownOp(comps) == \E i \in 1..Len(comps) : <<comps[i][1]>> \notin KnownOps

\* C21: parsing a string that contains an operation name outside original,
\* size, crop, thumbnail, convert, metadata, clone fails with MalformedName;
\* it never returns a name from which the unknown operation has been dropped.
C21_UnknownOpFailsParse ==
    (nm.parsed /\ HasUnknownOp(nm.comps)) =>
        /\ nm.res = "MalformedName"
        /\ ~(nm.res = "name" /\ \E i \in 1..Len(nm.comps) :
                <<nm.comps[i][1]>> \notin KnownOps
                /\ \A j \in 1..Len(nm.name.ops) : nm.name.ops[j] # nm.comps[i])

\* ------------------------------------------------- the HTTP router
\* SingleImageRouter picks the handler of a request on /<base>/<image_name>
\* from the request's Accept header.  A MIME type is <<type, subtype>>; an
\* Accept item is a MIME type or pattern with its quality in tenths.
DefaultMime == <<"image", "jpeg">>
AcceptedMimes ==
    <<DefaultMime, <<"image", "tiff">>, <<"image", "png">>, <<"image", "bmp">>, <<"application", "json">> >>
StrategyLookup(mime) == IF mime = <<"application", "json">> THEN "metadata" ELSE "image"
Handled == {AcceptedMimes[i] : i \in 1..Len(AcceptedMimes)}

ClientValues ==
    {DefaultMime, <<"image", "png">>, <<"application", "json">>,
     <<"test", "alwaysfail">>, <<"image", "bpg">>, <<"*", "*">>, <<"image", "*">>}
AcceptItems == [value : ClientValues, q : {0, 5, 10}]
\* request.accept_mimetypes: the items of the header, best quality first
AcceptLists ==
    {<< >>} \cup {<<it>> : it \in AcceptItems}
            \cup {pair \in AcceptItems \X AcceptItems : pair[2].q <= pair[1].q /\ pair[2].value # pair[1].value}

\* Accept._value_matches of MIMEAccept
ValueMatches(server, client) ==
    \/ client = <<"*", "*">>
    \/ client[2] = "*" /\ client[1] = server[1]
    \/ client = server

\* Accept.best_match(matches): the inner loop over the client's items
RECURSIVE ScanClient(_, _, _, _)
ScanClient(server, items, i, best) ==
    IF i > Len(items) \/ items[i].q <= best.q THEN best
    ELSE IF ValueMatches(server, items[i].value) /\ items[i].q > 0
         THEN ScanClient(server, items, i + 1, [q |-> items[i].q, result |-> <<server>>])
         ELSE ScanClient(server, items, i + 1, best)

RECURSIVE ScanServer(_, _, _)
ScanServer(items, j, best) ==
    IF j > Len(AcceptedMimes) THEN best
    ELSE ScanServer(items, j + 1, ScanClient(AcceptedMimes[j], items, 1, best))

\* << >> is None
BestMatch(items) == ScanServer(items, 1, [q |-> -1, result |-> << >>]).result
\* Accept.best
Best(items) == IF items = << >> THEN << >> ELSE <<items[1].value>>

\* SingleImageRouter._get_mime
GetMime(items) == IF BestMatch(items) = << >> THEN Best(items) ELSE BestMatch(items)

IdleRoute == [method |-> "none", accept |-> << >>, status |-> 0, handler |-> "none", mime |-> << >>, body |-> {}]

RouteInit ==
    /\ CacheIdle
    /\ nm = "None"
    /\ der = IdleRoute

\* SingleImageRouter.get / post: _get_handler, then the handler's method;
\* status 200 stands for whatever the handler answers
Route(method, items) ==
    /\ LET mime == GetMime(items)
       IN  der' = IF mime = << >> \/ mime[1] \notin Handled
                  THEN [method |-> method, accept |-> items, status |-> 406, handler |-> "none",
                        mime |-> mime, body |-> Handled]
                  ELSE [method |-> method, accept |-> items, status |-> 200,
                        handler |-> StrategyLookup(mime[1]), mime |-> mime, body |-> {}]
    /\ UNCHANGED <<nm, CacheVars>>

RouteNext == \E method \in {"GET", "POST"}, items \in AcceptLists : Route(method, items)

RouteSpec == RouteInit /\ [][RouteNext]_vars

\* C22: a GET or POST whose Accept header best-matches none of image/jpeg,
\* image/png, image/tiff, image/bmp, application/json is answered 406 with a
\* body listing the accepted types and reaches neither handler; a request
\* accepting anything (*/*) goes to the image handler as image/jpeg.
C22_UnmatchedAcceptIs406 ==
    der.method \in {"GET", "POST"} =>
        /\ (\A i \in 1..Len(der.accept) :
                der.accept[i].q = 0 \/ \A m \in Handled : ~ValueMatches(m, der.accept[i].value))
              => (der.status = 406 /\ der.body = Handled /\ der.handler = "none")
        /\ der.accept = <<[value |-> <<"*", "*">>, q |-> 10]>>
              => (der.handler = "image" /\ der.mime = <<DefaultMime>>)

\* C23: for every entry a tier holds, must_retain() is true while its
\* retain_until lies in the future, and false when the entry was built with
\* must_retain = false and its retain_until is zero or in the past.
C23_RetainUntilGatesMustRetain ==
    \A t \in Tiers : \A n \in DOMAIN contents[t] :
        LET e == contents[t][n]
        IN  /\ e.ru > now => MustRetain(e)
            /\ (~e.must /\ e.ru <= now) => ~MustRetain(e)

\* ---------------------------------------- remote objects with a lifetime
\* The remote cache starts over objects that carry 'lifetime' metadata, some
\* of it still in the future; clients read, the clock advances, entries are
\* deleted and the tier is cleaned.
LifetimeInit ==
    /\ cfg \in Configs
    /\ \E C \in SUBSET (Names \ Originals), S \in SUBSET Originals :
       \E life \in [C -> {InitLifetime, InitLifetime + 1}] :
          LET pc == [n \in C |-> ListedEntry(n, FALSE, life[n])]
              ps == [n \in S |-> ListedEntry(n, TRUE, 0)]
          IN  /\ C # {}
              /\ contents = [t \in Tiers |->
                                CASE t = "pcache" -> pc
                                  [] t = "pstore" -> ps
                                  [] OTHER -> << >>]
              /\ used = [t \in Tiers |->
                                CASE t = "pcache" -> SumSizes(pc)
                                  [] t = "pstore" -> StoreInitialPasses * SumSizes(ps)
                                  [] OTHER -> 0]
    /\ handle = [n \in Names |-> InitHandle(n)]
    /\ now = 1
    /\ clock = 1
    /\ baseImages = [built |-> FALSE, names |-> {}]
    /\ mustAdded = {}
    /\ last = [op |-> "init", t |-> "none", n |-> "none", res |-> "None", gone |-> {}]
    /\ nm = "None"
    /\ der = "None"

\* PersistentImageStore._clean and _flush_down called on the remote store
StoreClean ==
    /\ \E ord \in OrdersOf(DOMAIN contents["pstore"]) :
          /\ IsSorted(contents["pstore"], ord)
          /\ \E W \in {Clean(World, "pstore", ord)} : Commit(W, "clean", "pstore", "none")
    /\ UNCHANGED <<nm, der, cfg, now, clock, mustAdded>>

StoreFlush ==
    /\ \E p \in OrdersOf(DOMAIN contents["pstore"]) :
          \E W \in {FlushDown(World, "pstore", p)} : Commit(W, "flush", "pstore", "none")
    /\ UNCHANGED <<nm, der, cfg, now, clock, mustAdded>>

\* ImageCache.get called on one tier
TierGet(t, n) ==
    /\ clock < MaxClock
    /\ \E W \in {TierGetW(World, t, n)} : Commit(W, "tierget", t, n)
    /\ Advance
    /\ UNCHANGED <<nm, der, cfg, now, mustAdded>>

LifetimeNext ==
    \/ \E n \in Names : MasterGet(n)
    \/ \E t \in Tiers, n \in Names : TierGet(t, n)
    \/ \E n \in Names : TierAdd("pstore", n)
    \/ \E n \in Names : TierDelete("pcache", n)
    \/ CleanTier("pcache")
    \/ StoreClean
    \/ StoreFlush
    \/ Tick

LifetimeSpec == LifetimeInit /\ [][LifetimeNext]_vars

\* C24: a delete on the remote cache does not remove an object whose lifetime
\* is still in the future, may_remove being false for it; and may_remove is
\* true for a non-permanent entry whose lifetime has passed.
C24_DeleteHonoursLifetime ==
    [][(last'.op = "delete" /\ last'.t = "pcache") =>
          LET n == last'.n
              e == contents["pcache"][n]
          IN  /\ e.ru > now => (~MayRemove(World, n) /\ n \in DOMAIN contents'["pcache"])
              /\ (~e.must /\ e.ru < now) => MayRemove(World, n)]_vars

\* C25: the remote store has no eviction: a clean or a flush-down on it
\* removes no entry and leaves its contents and its size_used as they were.
C25_StoreNeverEvicts ==
    [][(last'.op \in {"clean", "flush"} /\ last'.t = "pstore") =>
          /\ contents'["pstore"] = contents["pstore"]
          /\ used'["pstore"] = used["pstore"]
          /\ last'.gone = {}]_vars

\* a clean of a remote store that holds a listed original and an added artifact
C25_Witness ==
    /\ last.op = "clean" /\ last.t = "pstore"
    /\ Cardinality(DOMAIN contents["pstore"]) >= 2

\* the tier a must_retain entry of tier t is written back to
RetainedSuccessor(t) == IF t = "memory" THEN "file" ELSE "pstore"

\* C26: a delete of an entry that is must_retain and has no persistent copy
\* completes the write-back to the successor tier before it removes the
\* entry: when the delete is over, the successor tier holds the name.
C26_DeleteAwaitsWriteBack ==
    [][\A t \in {"memory", "file"} : \A n \in DOMAIN contents[t] :
          (/\ last'.op = "delete" /\ last'.t = t /\ last'.n = n
           /\ contents[t][n].must /\ ~HasPersistence(World, n, contents[t][n].h))
              => (~IsExc(last'.res) /\ n \in DOMAIN contents'[RetainedSuccessor(t)])]_vars

\* C27: Tier.get(name) on a hit returns the stored artifact and stamps the
\* entry with an access time not smaller than any access time recorded in
\* the tier before, changing nothing else; on a miss it returns nothing and
\* changes nothing.
C27_GetStampsMonotonically ==
    [][last'.op = "tierget" =>
          LET t == last'.t
              n == last'.n
          IN  /\ used' = used /\ handle' = handle
              /\ IF n \in DOMAIN contents[t]
                 THEN /\ last'.res = "image"
                      /\ \A m \in DOMAIN contents[t] : contents[t][m].at <= contents'[t][n].at
                      /\ contents' = [contents EXCEPT ![t][n].at = contents'[t][n].at]
                 ELSE last'.res = "None" /\ contents' = contents]_vars

\* a hit on the older of two entries of a tier
C27_Witness ==
    /\ last.op = "tierget" /\ last.res = "image"
    /\ \E m \in DOMAIN contents[last.t] :
          m # last.n /\ contents[last.t][m].at > 0 /\ contents[last.t][last.n].at > contents[last.t][m].at

\* --------------------------------------------------- threads and locks
\* Request threads run add, delete and _flush_down on the memory and
\* local-file tiers, one statement group at a time.  Each tier has one RLock;
\* lock[t] is the thread that holds it, or 0.  A thread's stack holds one
\* frame per tier operation it is inside of, the innermost last.  The tiers
\* are unbounded here (max_size 0), so add's oversize branch is not taken.
LockNames == {"o", "t"}
LockTiers == {"memory", "file", "pstore"}
Frame(op, t, n, pc) == [op |-> op, tier |-> t, n |-> n, pc |-> pc, todo |-> {}]
Top(st) == st[Len(st)]
Pop(st) == SubSeq(st, 1, Len(st) - 1)
SetTop(st, f) == [st EXCEPT ![Len(st)] = f]

LockInit ==
    /\ CacheIdle
    /\ nm = "None"
    /\ \E eager \in BOOLEAN :
          der = [eager |-> eager,
                 idx |-> [t \in LockTiers |-> {}],
                 size |-> [t \in LockTiers |-> 0],
                 lock |-> [t \in LockTiers |-> 0],
                 stack |-> [th \in Callers |-> << >>]]

Running(th) == der.stack[th] # << >>
At(th, op, pc) == Running(th) /\ Top(der.stack[th]).op = op /\ Top(der.stack[th]).pc = pc
LockStep(d) == der' = d /\ UNCHANGED <<nm, CacheVars>>

\* a request thread enters ImageCache.add, ImageCache.delete or _flush_down
Call(th, op, t, n) ==
    /\ ~Running(th)
    /\ LockStep([der EXCEPT !.stack[th] = <<Frame(op, t, n, IF op = "add" THEN "contains" ELSE "lock")>>])

\* `with self._lock:` is entered; _flush_down starts to iterate the index
AcquireLock(th) ==
    /\ Running(th) /\ Top(der.stack[th]).pc = "lock"
    /\ LET f == Top(der.stack[th])
       IN  /\ der.lock[f.tier] = 0
           /\ LockStep([der EXCEPT !.lock[f.tier] = th,
                                   !.stack[th] = SetTop(@, [f EXCEPT !.pc = "locked", !.todo = der.idx[f.tier]])])

\* _flush_down, inside its lock: _write_back(name) calls add of the tier
\* that takes the entries that must be retained
FlushWriteBack(th) ==
    /\ At(th, "flush", "locked")
    /\ \E n \in Top(der.stack[th]).todo :
          LET f == Top(der.stack[th])
          IN  LockStep([der EXCEPT !.stack[th] =
                           Append(SetTop(@, [f EXCEPT !.todo = @ \ {n}]),
                                  Frame("add", RetainedSuccessor(f.tier), n, "contains"))])

\* _flush_down leaves its lock when every name has been written back
FlushDone(th) ==
    /\ At(th, "flush", "locked")
    /\ Top(der.stack[th]).todo = {}
    /\ LockStep([der EXCEPT !.lock[Top(der.stack[th]).tier] = 0, !.stack[th] = Pop(@)])

\* add: `if self.contains(name): return True`, outside any lock; the remote
\* store's add takes no lock at all
AddContains(th) ==
    /\ At(th, "add", "contains")
    /\ LET f == Top(der.stack[th])
       IN  LockStep(IF f.n \in der.idx[f.tier] THEN [der EXCEPT !.stack[th] = Pop(@)]
                    ELSE [der EXCEPT !.stack[th] =
                             SetTop(@, [f EXCEPT !.pc = IF f.tier = "pstore" THEN "bare" ELSE "lock"])])

\* add: the entry is put into the index and _size grows by the handle's size
AddInsert(th) ==
    /\ At(th, "add", "locked") \/ At(th, "add", "bare")
    /\ LET f == Top(der.stack[th])
       IN  LockStep([der EXCEPT !.idx[f.tier] = @ \cup {f.n},
                               !.size[f.tier] = @ + ImgLen[f.n],
                               !.lock[f.tier] = IF f.pc = "locked" THEN 0 ELSE @,
                               !.stack[th] = SetTop(@, [f EXCEPT !.pc = "stored"])])

\* add, after the lock: _store_actual, then the eager _write_back into the
\* next tier, or the return
AddWriteBack(th) ==
    /\ At(th, "add", "stored")
    /\ LET f == Top(der.stack[th])
       IN  LockStep(IF der.eager /\ f.tier # "pstore"
                    THEN [der EXCEPT !.stack[th] =
                             Append(SetTop(@, [f EXCEPT !.pc = "done"]),
                                    Frame("add", RetainedSuccessor(f.tier), f.n, "contains"))]
                    ELSE [der EXCEPT !.stack[th] = Pop(@)])

AddReturn(th) ==
    /\ At(th, "add", "done")
    /\ LockStep([der EXCEPT !.stack[th] = Pop(@)])

\* delete, inside its lock: a missing name is a KeyError (False is returned);
\* a present one is must_retain() (its retain_until is 0), and
\* _async_write_back raises before it reaches the next tier.  The `with`
\* releases the lock either way and nothing is removed.
DeleteBody(th) ==
    /\ At(th, "delete", "locked")
    /\ LockStep([der EXCEPT !.lock[Top(der.stack[th]).tier] = 0, !.stack[th] = Pop(@)])

LockNext ==
    \/ \E th \in Callers, t \in {"memory", "file"}, n \in LockNames : Call(th, "add", t, n)
    \/ \E th \in Callers, t \in {"memory", "file"}, n \in LockNames : Call(th, "delete", t, n)
    \/ \E th \in Callers, t \in {"memory", "file"} : Call(th, "flush", t, "none")
    \/ \E th \in Callers : AcquireLock(th)
    \/ \E th \in Callers : FlushWriteBack(th)
    \/ \E th \in Callers : FlushDone(th)
    \/ \E th \in Callers : AddContains(th)
    \/ \E th \in Callers : AddInsert(th)
    \/ \E th \in Callers : AddWriteBack(th)
    \/ \E th \in Callers : AddReturn(th)
    \/ \E th \in Callers : DeleteBody(th)

LockSpec == LockInit /\ [][LockNext]_vars

\* C28: no thread holds the lock of tier T while it is inside an operation
\* of another tier: every call into the successor (flush-down, eager
\* write-back, delete-triggered write-back) is made with T's lock released.
C28_NoLockHeldAcrossTiers ==
    \A th \in Callers : \A t \in LockTiers :
        (der.lock[t] = th /\ Running(th)) => Top(der.stack[th]).tier = t

\* C29: adds and deletes of one tier are serialized: once every thread has
\* returned, each tier holds one entry per added name and its size_used is the
\* sum of the sizes of its entries, so that two concurrent add(name, H) have
\* raised size_used by H.size exactly once.
C29_ConcurrentAddsCountOnce ==
    (\A th \in Callers : ~Running(th)) =>
        \A t \in LockTiers :
            der.size[t] = SumOver([n \in der.idx[t] |-> [size |-> ImgLen[n]]], der.idx[t])

\* C30: a tier whose size_max and count_max are both 0 never evicts: a
\* clean of it removes no entry, whatever the tier contains.
C30_UnboundedTierNeverEvicts ==
    [][\A t \in Tiers :
          (/\ last'.op = "clean" /\ last'.t = t
           /\ MaxSizeOf(t) = 0 /\ MaxElementsOf(t) = 0)
              => DOMAIN contents'[t] = DOMAIN contents[t]]_vars

\* C31: each apply_thumbnail, apply_resize, apply_crop, apply_convert and
\* apply_metadata appends exactly one operation at the end of the name's
\* operation list and leaves the earlier operations as they were.
C31_ApplyAppendsOneOp ==
    [][(nm'.applied = nm.applied + 1 /\ nm'.op \in {"thumbnail", "resize", "crop", "convert", "metadata"})
          => /\ Len(nm'.name.ops) = Len(nm.name.ops) + 1
             /\ SubSeq(nm'.name.ops, 1, Len(nm.name.ops)) = nm.name.ops]_vars

\* ------------------------------------------------- one ImageHandle alone
\* The fields of one ImageHandle: _local_file_path, _file_like, _bytes,
\* _persistent_path and _persistent_store, and the decoded image, which is
\* "strong" while _keep_alive_ref holds it, "weak" while only the weakref
\* _image and some other holder do, and "none" once it has been collected.
\* uploads counts the calls of store_image.
PathNames == {"o", "t"}
Stores == {"pcache", "pstore"}
NewHandle(file, filelike, bytes, path, store, img) ==
    [file |-> file, filelike |-> filelike, bytes |-> bytes, path |-> path, store |-> store,
     img |-> img, uploads |-> 0, op |-> "new", res |-> "None"]

\* ImageHandle._get_image on the fields of one handle
HGetImage(h) ==
    IF h.img # "none" THEN h
    ELSE IF h.bytes \/ h.filelike \/ h.file THEN [h EXCEPT !.img = "strong"]
    ELSE IF h.path # "none" THEN [h EXCEPT !.file = TRUE, !.img = "strong"]
    ELSE [h EXCEPT !.res = "RepositoryError"]

\* ImageHandle.bytes
HBytes(h) ==
    IF h.bytes THEN h
    ELSE LET g == HGetImage(h) IN IF IsExc(g.res) THEN g ELSE [g EXCEPT !.bytes = TRUE]

\* ImageHandle.as_filelike
HAsFilelike(h) ==
    LET g == HBytes(h) IN IF IsExc(g.res) THEN g ELSE [g EXCEPT !.bytes = FALSE]

\* ImageHandle.as_file: the file is written, its path is returned and not kept
HAsFile(h) ==
    LET g == HGetImage(h) IN IF IsExc(g.res) THEN g ELSE [g EXCEPT !.bytes = FALSE]

\* a new upload under the given name, whatever the handle has recorded
HUploadAgain(h, name) ==
    LET f == HAsFilelike(h)
    IN  IF IsExc(f.res) THEN f ELSE [f EXCEPT !.path = name, !.uploads = @ + 1]

\* the upload of as_persistent: store_image(self.as_filelike(), name) when
\* no remote path is recorded
HUpload(h, name) == IF h.path = "none" THEN HUploadAgain(h, name) ELSE h

\* ImageHandle.as_persistent(name, store)
HAsPersistent(h, name, store) ==
    IF h.store = "none" /\ store = "none" THEN [h EXCEPT !.res = "RepositoryError"]
    ELSE LET g == IF store # "none" THEN [h EXCEPT !.store = store] ELSE h
             u == HUpload(g, name)
         IN  IF IsExc(u.res) THEN u ELSE [u EXCEPT !.bytes = FALSE]

\* ImageHandle.has_persistence
HHasPersistence(h) == h.store # "none" /\ h.path # "none"

\* CacheMaster.make_persistent, for the handle of the entry it found
HMakePersistent(h, name, store) == IF HHasPersistence(h) THEN h ELSE HAsPersistent(h, name, store)

\* ImageHandle.weaken_liveness
HWeaken(h) == [h EXCEPT !.img = IF @ = "strong" THEN "weak" ELSE @]

\* the constructors: from_file (eager or not), from_persistent,
\* from_filelike, from_bytes, and from_image (also clone, convert, crop)
HandleInit ==
    /\ CacheIdle
    /\ nm = "None"
    /\ der \in {NewHandle(TRUE, FALSE, FALSE, "none", "none", img) : img \in {"none", "strong"}}
              \cup {NewHandle(FALSE, FALSE, FALSE, pn, st, "none") : pn \in PathNames, st \in Stores}
              \cup {NewHandle(FALSE, TRUE, FALSE, "none", "none", "strong"),
                    NewHandle(FALSE, FALSE, TRUE, "none", "none", "strong"),
                    NewHandle(FALSE, FALSE, FALSE, "none", "none", "strong")}

HandleStep(h, op) ==
    /\ der' = [h EXCEPT !.op = op]
    /\ UNCHANGED <<nm, CacheVars>>

Fresh == [der EXCEPT !.res = "None"]
BytesCall == HandleStep(HBytes(Fresh), "bytes")
AsFileCall == HandleStep(HAsFile(Fresh), "as_file")
AsFilelikeCall == HandleStep(HAsFilelike(Fresh), "as_filelike")
AsPersistentCall(name, store) == HandleStep(HAsPersistent(Fresh, name, store), "as_persistent")
MakePersistentCall(name, store) == HandleStep(HMakePersistent(Fresh, name, store), "make_persistent")
WeakenCall == HandleStep(HWeaken(Fresh), "weaken")
\* the last holder of a weakly held image lets go of it
Collect == der.img = "weak" /\ HandleStep([der EXCEPT !.img = "none"], der.op)

HandleNext ==
    \/ BytesCall
    \/ AsFileCall
    \/ AsFilelikeCall
    \/ \E name \in PathNames, store \in Stores \cup {"none"} : AsPersistentCall(name, store)
    \/ \E name \in PathNames, store \in Stores : MakePersistentCall(name, store)
    \/ WeakenCall
    \/ Collect

HandleSpec == HandleInit /\ [][HandleNext]_vars

\* C32: after construction and after any sequence of bytes(), as_file,
\* as_filelike, as_persistent and weaken() calls the handle carries at least
\* one backing source: bytes, a file-like, a local file path, a remote path,
\* or a strongly held decoded image.
C32_HandleKeepsASource ==
    der.bytes \/ der.filelike \/ der.file \/ der.path # "none" \/ der.img = "strong"

\* C33: once a handle has a remote path recorded, an as_persistent call,
\* with any name and made directly or by make_persistent, uploads nothing
\* and leaves the recorded remote path as it is.
C33_AsPersistentIsIdempotent ==
    [][(der.path # "none" /\ der'.op \in {"as_persistent", "make_persistent"})
          => (der'.path = der.path /\ der'.uploads = der.uploads)]_vars

\* C33, its case: as_persistent has been called, with a store, on a handle
\* that was built from a remote path and has never uploaded.
C33_Witness ==
    /\ der.op = "as_persistent"
    /\ der.res = "None"
    /\ der.path = "o"
    /\ der.uploads = 0

\* C34: url(name) sets the retain_until of the name's entry in the remote
\* tier to max(current retain_until, now + url_lifetime + url_lifetime_slack).
C34_UrlExtendsRetainUntil ==
    [][\A n \in Names :
          LET t == IF IsPermanent(n) THEN "pstore" ELSE "pcache"
              current == IF n \in DOMAIN contents[t] THEN contents[t][n].ru ELSE 0
              target == now + UrlLifetime + UrlSlack
          IN  (last'.op = "url" /\ last'.n = n /\ n \in DOMAIN contents'[t])
                  => contents'[t][n].ru = (IF current > target THEN current ELSE target)]_vars

\* C35: every entry the local-file tier builds in its start-up scan has
\* prefer_retain exactly when its canonical name is a thumbnail derivation
\* and must_retain exactly when its name is an original.
C35_ScanSetsPolicyFlags ==
    last.op = "start" =>
        \A n \in DOMAIN contents["file"] :
            /\ contents["file"][n].prefer = IsThumbnail(n)
            /\ contents["file"][n].must = IsOriginal(n)

\* C36: right after the remote cache and the remote store have started up
\* from the listing, each object taken into a tier is one entry, must_retain
\* false in the remote cache and true in the remote store, and the tier's
\* size_used counts the size of each such object exactly once.
C36_RemoteStartUpCountsOnce ==
    last.op = "init" =>
        /\ \A n \in DOMAIN contents["pcache"] : ~contents["pcache"][n].must
        /\ \A n \in DOMAIN contents["pstore"] : contents["pstore"][n].must
        /\ used["pcache"] = SumSizes(contents["pcache"])
        /\ used["pstore"] = SumSizes(contents["pstore"])

\* C37: when get_as_defined(N) returns an artifact on a miss, the artifact
\* has been inserted under N: a Master.get(N) that follows finds it.
C37_DerivedIsInsertedUnderName ==
    [][\A N \in Requests :
          (/\ Str(N) \notin DOMAIN der.cache
           /\ der' = GetAsDefinedW(der, N)
           /\ der'.last.res = "image")
              => Str(N) \in DOMAIN der'.cache]_vars

\* C38: get_as_defined(N) for a derived name N that no tier holds and whose
\* base name is not in the base_images index, the index that has never been
\* built included, fails with the error for an unknown base (RepositoryError)
\* and adds no entry.
C38_UnknownBaseFails ==
    [][\A N \in Requests :
          (/\ N.isDerived
           /\ Str(N) \notin DOMAIN der.cache
           /\ ~der.built \/ N.base # OriginalName.base
           /\ der' = GetAsDefinedW(der, N))
              => (der'.last.res = "RepositoryError" /\ der'.cache = der.cache)]_vars

\* C39: when the derivation produces an artifact whose rendered name differs
\* from N, get_as_defined(N) fails with the mismatch error
\* (RepositoryFailure) and no entry keyed by N is left behind.
C39_MismatchLeavesNoEntry ==
    [][\A N \in Requests :
          (/\ N.isDerived
           /\ Str(N) \notin DOMAIN der.cache
           /\ der.built /\ N.base = OriginalName.base
           /\ AsDefined(der.cache, N).res = "image"
           /\ Str(AsDefined(der.cache, N).name) # Str(N)
           /\ der' = GetAsDefinedW(der, N))
              => (der'.last.res = "RepositoryFailure" /\ Str(N) \notin DOMAIN der'.cache)]_vars

\* ------------------------------------------- an add whose store step fails
\* ImageCache.add on the local-file tier or the remote cache when
\* _store_actual raises: as_file turns the IOError of the write into
\* RepositoryFailure, store_image raises RepositoryError for a failed upload
\* (the handle has built its decoded image, or its bytes, by then).  The
\* entry has been indexed and _size updated under the lock before that, and
\* the except clauses only raise again.
FailedCacheAdd(W, t, n, hk, retain, must) ==
    IF Has(W, t, n) THEN [W EXCEPT !.res = "True"]
    ELSE IF MaxSizeOf(t) # 0 /\ HandleSize(W, n, hk) * 10 > MaxSizeOf(t)
    THEN [W EXCEPT !.res = OversizeOutcome]
    ELSE [W EXCEPT !.c[t] = Put(@, n, NewEntry(hk, HandleSize(W, n, hk), retain, must)),
                   !.u[t] = @ + HandleSize(W, n, hk),
                   !.h[n] = IF t = "file" THEN GetImage(@, n) ELSE AsFilelike(@, n),
                   !.res = IF t = "file" THEN "RepositoryFailure" ELSE "RepositoryError"]

\* PersistentImageStore.add when the upload raises: the entry has been put
\* into _contents, `_size +=` is not reached
FailedStoreAdd(W, n, hk, retain) ==
    IF Has(W, "pstore", n) THEN [W EXCEPT !.res = "True"]
    ELSE [W EXCEPT !.c["pstore"] = Put(@, n, NewEntry(hk, HandleSize(W, n, hk), retain, TRUE)),
                   !.h[n] = AsFilelike(@, n),
                   !.res = "RepositoryError"]

FailedTierAdd(t, n) ==
    /\ clock < MaxClock
    /\ \E W \in {IF t = "pstore" THEN FailedStoreAdd(World, n, "u", ShouldRetainParsed(n))
                  ELSE FailedCacheAdd(World, t, n, "u", IsThumbnail(n), IsOriginal(n))} :
          Commit(W, "failedadd", t, n)
    /\ Advance
    /\ UNCHANGED <<nm, der, cfg, now, mustAdded>>

FaultNext ==
    \/ \E t \in Tiers, n \in Names : TierAdd(t, n)
    \/ \E t \in {"file", "pcache", "pstore"}, n \in Names : FailedTierAdd(t, n)
    \/ \E n \in Names : MasterGet(n)
    \/ Tick

FaultSpec == Init /\ [][FaultNext]_vars

\* C40: when the store step of Tier.add(name, handle) fails, the add reports
\* the error and the tier is as before the call: no entry for the name is in
\* contents and size_used is unchanged.
C40_FailedStoreLeavesTierAsBefore ==
    [][\A t \in Tiers :
          (/\ last'.op = "failedadd" /\ last'.t = t
           /\ last'.res \in {"RepositoryFailure", "RepositoryError"})
              => (DOMAIN contents'[t] = DOMAIN contents[t] /\ used'[t] = used[t])]_vars
====
